---- MODULE Spec2Model ----
(***************************************************************************)
(* A model of scheduler_reader.py: one run of main(), from the environment *)
(* it is started in to the calls it makes to send_email.                   *)
(*                                                                         *)
(* Times of day are counted in ticks after local midnight                  *)
(* (TicksPerSecond ticks to a second), weekdays as Python's weekday():     *)
(* Monday = 0 .. Sunday = 6.  An environment variable that is not set has  *)
(* the value "unset".                                                      *)
(***************************************************************************)
EXTENDS Integers, Sequences, FiniteSets, TLC

VARIABLES
    env,              \* os.environ: GITHUB_ACTIONS, CI, TEST_MODE, SEND_REMINDER, SCHEDULE_TIME
    pc,               \* the position of main()
    calendar_service, \* TRUE when authenticate() returned a calendar service
    gmail_service,    \* TRUE when authenticate() returned a gmail service
    now,              \* the clock read by check_action_needed (ticks), NotRead before
    action,           \* the value returned by check_action_needed
    today,            \* now.weekday() as read by get_tomorrow_events, NotRead before
    fetch,            \* what calendar_service.events().list().execute() did
    events,           \* get_tomorrow_events' first result
    tomorrow_date,    \* get_tomorrow_events' second result (its weekday)
    status,           \* get_tomorrow_events' third result
    queries,          \* the number of calendar queries issued
    first_half,       \* format_schedule_email's first_half list
    second_half,      \* format_schedule_email's second_half list
    body,             \* the text last rendered by a format_* function
    sent,             \* the (subject, body) pairs handed to send_email, in order
    attempts,         \* the number of gmail send calls executed
    delivered,        \* the results send_email returned, in order
    returned          \* main's return value, NotRead before it returns

vars == << env, pc, calendar_service, gmail_service, now, action, today, fetch,
           events, tomorrow_date, status, queries, first_half, second_half,
           body, sent, attempts, delivered, returned >>

-----------------------------------------------------------------------------
(* Bounds of the model *)

\* The resolution of the clock: ticks per second.
TicksPerSecond == 1000

\* The longest event list a calendar query returns.
MaxEvents == 2

\* The longest event list format_schedule_email is applied to on its own.
MaxFormatEvents == 3

-----------------------------------------------------------------------------
(* Program constants *)

REMINDER_MINUTES == 30

\* "within 5 minutes": the 300 of `reminder_diff < 300`, in seconds.
WindowSeconds == 300

\* the 150 of `len(description) < 150`
NotesLimit == 150

\* Asia/Kolkata is UTC+05:30 the whole year: 330 minutes.
KolkataOffsetMinutes == 330

SKIP_WEEKENDS == TRUE

SecondsPerDay == 24 * 3600

MinutesPerDay == 24 * 60

NotRead == 0 - 1

Abs(x) == IF x < 0 THEN 0 - x ELSE x

-----------------------------------------------------------------------------
(* The environment and the configuration read from it *)

\* os.environ.get(name, default)
EnvGet(value, default) == IF value = "unset" THEN default ELSE value

\* str.lower() on the values the model gives SEND_REMINDER
Lower(s) ==
    CASE s = "True" -> "true"
      [] s = "TRUE" -> "true"
      [] OTHER -> s

RECIPIENT_EMAIL == "kunal@insursa.com"

SCHEDULE_TIME(e) == EnvGet(e.SCHEDULE_TIME, "21:00")

SEND_REMINDER(e) == Lower(EnvGet(e.SEND_REMINDER, "true")) = "true"

\* map(int, time.split(':')) on the values the model gives SCHEDULE_TIME
ParseHHMM(s) ==
    CASE s = "21:00" -> << 21, 0 >>
      [] s = "00:10" -> << 0, 10 >>
      [] s = "09:05" -> << 9, 5 >>

is_github_actions(e) == e.GITHUB_ACTIONS = "true" \/ e.CI = "true"

-----------------------------------------------------------------------------
(* check_action_needed *)

\* now.replace(hour=h, minute=m, second=0): the microsecond field is kept.
ReplaceHMS(t, h, m) == (h * 3600 + m * 60) * TicksPerSecond + (t % TicksPerSecond)

\* abs((a - b).total_seconds()) < 300
Within300(a, b) == Abs(a - b) < WindowSeconds * TicksPerSecond

check_action_needed_testfirst(e, t) ==
    IF e.TEST_MODE = "true" THEN "test"
    ELSE IF is_github_actions(e) THEN "schedule"
    ELSE "test"

check_action_needed_notest(e, t) ==
    IF is_github_actions(e) THEN "schedule"
    ELSE LET hm == ParseHHMM(SCHEDULE_TIME(e))
             schedule_dt == ReplaceHMS(t, hm[1], hm[2])
         IN  IF Within300(t, schedule_dt) THEN "schedule" ELSE "test"

check_action_needed(e, t) ==
    IF is_github_actions(e) THEN "schedule"
    ELSE IF e.TEST_MODE = "true" THEN "test"
    ELSE LET hm == ParseHHMM(SCHEDULE_TIME(e))
             schedule_dt == ReplaceHMS(t, hm[1], hm[2])
             reminder_dt == schedule_dt - REMINDER_MINUTES * 60 * TicksPerSecond
         IN  IF SEND_REMINDER(e) /\ Within300(t, reminder_dt) THEN "reminder"
             ELSE IF Within300(t, schedule_dt) THEN "schedule"
             ELSE "test"

-----------------------------------------------------------------------------
(* Calendar events *)

\* dict.get(key, default)
DictGet(d, key, default) == IF key \in DOMAIN d THEN d[key] ELSE default

\* A description is a text of `core` characters that neither starts nor ends
\* with white space, between `lead` and `trail` characters of white space.
Text(lead, core, trail) == [lead |-> lead, core |-> core, trail |-> trail]

EmptyText == Text(0, 0, 0)

\* str.strip()
Strip(text) == Text(0, text.core, 0)

\* len(str)
TextLen(text) == text.lead + text.core + text.trail

\* event['start']: {'date': ...} for an all-day event, {'dateTime': ...} for a
\* timed one, whose text carries a UTC offset (minutes), an hour and a minute.
AllDay == [kind |-> "date", utcoff |-> 0, hour |-> 0, minute |-> 0]

Timed(off, h, m) == [kind |-> "dateTime", utcoff |-> off, hour |-> h, minute |-> m]

\* start = event['start'].get('dateTime', event['start'].get('date')); 'T' in start
IsTimed(start) == start.kind = "dateTime"

\* fromisoformat(start.replace('Z', '+00:00')).astimezone(Asia/Kolkata):
\* the local minute of the day.
LocalMinute(start) ==
    (start.hour * 60 + start.minute - start.utcoff + KolkataOffsetMinutes) % MinutesPerDay

\* the starts of the events a calendar query of the model returns
FetchedStarts == { AllDay, Timed(0, 8, 0) }

\* the starts of the events format_schedule_email is applied to on its own
StartSamples ==
    { AllDay,
      Timed(KolkataOffsetMinutes, 13, 29), Timed(KolkataOffsetMinutes, 13, 30),
      Timed(0, 7, 59), Timed(0, 8, 0), Timed(0, 20, 0) }

\* every start: all-day, and every minute of the day written in UTC ('Z') and
\* written with the offset +05:30
AllStarts ==
    { AllDay } \cup { Timed(off, h, m) : off \in {0, KolkataOffsetMinutes},
                                          h \in 0 .. 23, m \in 0 .. 59 }

\* The optional key `key` of an event: absent, or present with a value of vals.
Optional(key, vals) == { [k \in {} |-> ""] } \cup { key :> v : v \in vals }

\* the descriptions of the events format_single_event is applied to
DescriptionSamples ==
    { Text(lead, core, trail) :
        lead \in {0, 1}, core \in {0, 1, 80, NotesLimit - 1, NotesLimit, 200},
        trail \in {0, 1, 60} }

\* the events format_single_event is applied to
EventSamples ==
    { [id |-> 1, start |-> se[1], end |-> se[2]] @@ sm @@ lo @@ de @@ ha :
        se \in { << AllDay, AllDay >>,
                 << Timed(KolkataOffsetMinutes, 9, 0), Timed(KolkataOffsetMinutes, 10, 30) >>,
                 << Timed(0, 6, 45), Timed(0, 8, 0) >> },
        sm \in Optional("summary", {"Standup"}),
        lo \in Optional("location", {"", "Room 1"}),
        de \in Optional("description", DescriptionSamples),
        ha \in Optional("hangoutLink", {"https://meet.google.com/abc"}) }

\* event['end'] of the model's listed events: half an hour after the start
HalfHourLater(start) ==
    IF IsTimed(start)
    THEN LET m == (start.hour * 60 + start.minute + 30) % MinutesPerDay
         IN  Timed(start.utcoff, m \div 60, m % 60)
    ELSE AllDay

\* event lists of at most n events; an event's id is its place in the response
EventLists(starts, n) ==
    UNION { { [i \in 1..k |-> [id |-> i, start |-> f[i], end |-> HalfHourLater(f[i])]] :
                f \in [1..k -> starts] } : k \in 0..n }

-----------------------------------------------------------------------------
(* get_tomorrow_events *)

\* (now + timedelta(days=1)).weekday()
TomorrowOf(wd) == (wd + 1) % 7

skip_weekend_satonly(wd) == SKIP_WEEKENDS /\ TomorrowOf(wd) = 5

\* lines 136-141: the weekend skip
skip_weekend(wd) ==
    /\ SKIP_WEEKENDS
    /\ \/ TomorrowOf(wd) = 5
       \/ (TomorrowOf(wd) = 6 /\ wd # 6)

\* The results of the calendar query the model draws from.
FetchOutcomes ==
    [kind : {"ok"}, items : EventLists(FetchedStarts, MaxEvents)]
      \cup { [kind |-> "HttpError", items |-> << >>],
             [kind |-> "exception", items |-> << >>] }

NoFetch == [kind |-> "none", items |-> << >>]

get_tomorrow_events_queryfirst(cal, wd, outcome) ==
    IF ~cal THEN
        [events |-> << >>, tomorrow |-> TomorrowOf(wd), status |-> "no_auth",
         queried |-> FALSE, raised |-> FALSE]
    ELSE IF outcome.kind = "exception" THEN
        [events |-> "None", tomorrow |-> TomorrowOf(wd), status |-> "none",
         queried |-> TRUE, raised |-> TRUE]
    ELSE IF outcome.kind = "HttpError" THEN
        [events |-> << >>, tomorrow |-> TomorrowOf(wd), status |-> "error",
         queried |-> TRUE, raised |-> FALSE]
    ELSE IF skip_weekend(wd) THEN
        [events |-> "None", tomorrow |-> TomorrowOf(wd), status |-> "weekend",
         queried |-> TRUE, raised |-> FALSE]
    ELSE IF outcome.items = << >> THEN
        [events |-> << >>, tomorrow |-> TomorrowOf(wd), status |-> "holiday",
         queried |-> TRUE, raised |-> FALSE]
    ELSE
        [events |-> outcome.items, tomorrow |-> TomorrowOf(wd), status |-> "normal",
         queried |-> TRUE, raised |-> FALSE]

\* get_tomorrow_events(calendar_service) with the weekday the clock gives and
\* the outcome of the query, which is issued only past the two early returns.
get_tomorrow_events(cal, wd, outcome) ==
    IF ~cal THEN
        [events |-> << >>, tomorrow |-> TomorrowOf(wd), status |-> "no_auth",
         queried |-> FALSE, raised |-> FALSE]
    ELSE IF skip_weekend(wd) THEN
        [events |-> "None", tomorrow |-> TomorrowOf(wd), status |-> "weekend",
         queried |-> FALSE, raised |-> FALSE]
    ELSE IF outcome.kind = "exception" THEN
        [events |-> "None", tomorrow |-> TomorrowOf(wd), status |-> "none",
         queried |-> TRUE, raised |-> TRUE]
    ELSE IF outcome.kind = "HttpError" THEN
        [events |-> << >>, tomorrow |-> TomorrowOf(wd), status |-> "error",
         queried |-> TRUE, raised |-> FALSE]
    ELSE IF outcome.items = << >> THEN
        [events |-> << >>, tomorrow |-> TomorrowOf(wd), status |-> "holiday",
         queried |-> TRUE, raised |-> FALSE]
    ELSE
        [events |-> outcome.items, tomorrow |-> TomorrowOf(wd), status |-> "normal",
         queried |-> TRUE, raised |-> FALSE]

-----------------------------------------------------------------------------
(* The format_* functions.  A rendered text is the record of the template   *)
(* and of the values the f-string puts into it.                             *)

\* format_time_12hr(time_24hr): << hour_12, minute, period >>
format_time_12hr(time_24hr) ==
    LET hm == ParseHHMM(time_24hr)
        hour == hm[1]
        period == IF hour < 12 THEN "AM" ELSE "PM"
        h12 == IF hour <= 12 THEN hour ELSE hour - 12
        hour_12 == IF h12 = 0 THEN 12 ELSE h12
    IN  << hour_12, hm[2], period >>

format_reminder_email(tomorrow, e) ==
    [template |-> "reminder", date |-> tomorrow,
     send_time |-> format_time_12hr(SCHEDULE_TIME(e))]

format_holiday_email(tomorrow) == [template |-> "holiday", date |-> tomorrow]

format_weekend_email(tomorrow) == [template |-> "weekend", date |-> tomorrow]

\* clock: datetime.now() as the strftime of line 218 prints it (the minute)
format_github_actions_email(e, clock) ==
    [template |-> "github_actions", executed_at |-> clock,
     recipient |-> EnvGet(e.RECIPIENT_EMAIL, RECIPIENT_EMAIL),
     schedule |-> format_time_12hr(SCHEDULE_TIME(e)),
     reminder |-> IF SEND_REMINDER(e) THEN "Enabled" ELSE "Disabled"]

\* datetime.strftime('%I:%M %p') of a minute of the day
Strftime12(minute_of_day) ==
    LET hour == minute_of_day \div 60
    IN  << IF hour % 12 = 0 THEN 12 ELSE hour % 12, minute_of_day % 60,
           IF hour < 12 THEN "AM" ELSE "PM" >>

notes_line_upto150(event) ==
    LET description == Strip(DictGet(event, "description", EmptyText))
    IN  IF TextLen(description) > 0 /\ TextLen(description) <= NotesLimit
        THEN << description >>
        ELSE << >>

\* lines 311-313: the notes line of an event, or no line
notes_line(event) ==
    LET description == Strip(DictGet(event, "description", EmptyText))
    IN  IF TextLen(description) > 0 /\ TextLen(description) < NotesLimit
        THEN << description >>
        ELSE << >>

\* lines 290-318: the rendered event: its time range, its title and its
\* optional location, notes and meeting-link lines (each no line or one)
format_single_event(event) ==
    [template |-> "single_event",
     time_str |-> IF IsTimed(event.start)
                  THEN << Strftime12(LocalMinute(event.start)), " - ",
                          Strftime12(LocalMinute(event.end)) >>
                  ELSE << "All Day" >>,
     summary |-> DictGet(event, "summary", "No Title"),
     location |-> IF DictGet(event, "location", "") # ""
                  THEN << event.location >> ELSE << >>,
     notes |-> notes_line(event),
     meet |-> IF "hangoutLink" \in DOMAIN event
              THEN << event.hangoutLink >> ELSE << >>]

NoHalves == [first_half |-> << >>, second_half |-> << >>]

group_event_dropallday(acc, event) ==
    IF IsTimed(event.start) THEN
        LET hour == LocalMinute(event.start) \div 60
            minute == LocalMinute(event.start) % 60
        IN  IF hour < 13 \/ (hour = 13 /\ minute < 30)
            THEN [acc EXCEPT !.first_half = Append(@, event)]
            ELSE [acc EXCEPT !.second_half = Append(@, event)]
    ELSE acc

group_event_halfpastfirst(acc, event) ==
    IF IsTimed(event.start) THEN
        LET hour == LocalMinute(event.start) \div 60
            minute == LocalMinute(event.start) % 60
        IN  IF hour < 13 \/ (hour = 13 /\ minute <= 30)
            THEN [acc EXCEPT !.first_half = Append(@, event)]
            ELSE [acc EXCEPT !.second_half = Append(@, event)]
    ELSE [acc EXCEPT !.first_half = Append(@, event)]

\* lines 248-260: the body of the grouping loop, for one event
group_event(acc, event) ==
    IF IsTimed(event.start) THEN
        LET hour == LocalMinute(event.start) \div 60
            minute == LocalMinute(event.start) % 60
        IN  IF hour < 13 \/ (hour = 13 /\ minute < 30)
            THEN [acc EXCEPT !.first_half = Append(@, event)]
            ELSE [acc EXCEPT !.second_half = Append(@, event)]
    ELSE [acc EXCEPT !.first_half = Append(@, event)]

\* lines 244-260: `for event in events`, from the i-th event on
RECURSIVE group_events(_, _, _)
group_events(evs, i, acc) ==
    IF i > Len(evs) THEN acc
    ELSE group_events(evs, i + 1, group_event(acc, evs[i]))

\* clock: datetime.now() as the strftime of line 282 prints it (the minute)
format_schedule_email(evs, tomorrow, clock) ==
    LET halves == group_events(evs, 1, NoHalves)
    IN  [template |-> "schedule", date |-> tomorrow,
         first_half |-> halves.first_half, second_half |-> halves.second_half,
         first_lines |-> [i \in 1 .. Len(halves.first_half) |->
                             format_single_event(halves.first_half[i])],
         second_lines |-> [i \in 1 .. Len(halves.second_half) |->
                              format_single_event(halves.second_half[i])],
         total |-> Len(evs), generated_at |-> clock]

-----------------------------------------------------------------------------
(* send_email and main *)

send_email_uncaught(gmail, subject, text, outcome) ==
    IF gmail THEN
        IF outcome = "raise"
        THEN [result |-> FALSE, attempted |-> 1, raised |-> TRUE]
        ELSE [result |-> TRUE, attempted |-> 1, raised |-> FALSE]
    ELSE [result |-> TRUE, attempted |-> 0, raised |-> FALSE]

\* send_email(gmail_service, subject, body): outcome is what the gmail send
\* call does when it is made.  `except Exception` catches what it raises, so
\* send_email itself never raises.
send_email(gmail, subject, text, outcome) ==
    IF gmail THEN
        IF outcome = "raise"
        THEN [result |-> FALSE, attempted |-> 1, raised |-> FALSE]
        ELSE [result |-> TRUE, attempted |-> 1, raised |-> FALSE]
    ELSE [result |-> TRUE, attempted |-> 0, raised |-> FALSE]

main_handle_holidayasweekend(st, act, e, evs, tomorrow, clock) ==
    IF st = "no_auth" THEN
        << [subject |-> << "GitHub Actions Workflow Status" >>,
            body |-> format_github_actions_email(e, clock)] >>
    ELSE IF st \in {"weekend", "holiday"} /\ act = "schedule" THEN
        << [subject |-> << "Weekend Notice" >>,
            body |-> format_weekend_email(tomorrow)] >>
    ELSE IF st = "normal" THEN
        IF act = "reminder" /\ SEND_REMINDER(e) THEN
            << [subject |-> << "Calendar Update Reminder" >>,
                body |-> format_reminder_email(tomorrow, e)] >>
        ELSE IF act \in {"schedule", "test"} THEN
            << [subject |-> << "Schedule Update - ", tomorrow >>,
                body |-> format_schedule_email(evs, tomorrow, clock)] >>
        ELSE << >>
    ELSE << >>

main_handle_stampweekend(st, act, e, evs, tomorrow, clock) ==
    IF st = "no_auth" THEN
        << [subject |-> << "GitHub Actions Workflow Status" >>,
            body |-> format_github_actions_email(e, clock)] >>
    ELSE IF st = "weekend" /\ act = "schedule" THEN
        << [subject |-> << "Weekend Notice" >>,
            body |-> [template |-> "weekend", date |-> tomorrow,
                      generated_at |-> clock]] >>
    ELSE IF st = "holiday" /\ act = "schedule" THEN
        << [subject |-> << "Holiday Notice - ", tomorrow >>,
            body |-> format_holiday_email(tomorrow)] >>
    ELSE IF st = "normal" THEN
        IF act = "reminder" /\ SEND_REMINDER(e) THEN
            << [subject |-> << "Calendar Update Reminder" >>,
                body |-> format_reminder_email(tomorrow, e)] >>
        ELSE IF act \in {"schedule", "test"} THEN
            << [subject |-> << "Schedule Update - ", tomorrow >>,
                body |-> format_schedule_email(evs, tomorrow, clock)] >>
        ELSE << >>
    ELSE << >>

\* lines 381-407: the calls of send_email main makes, as (subject, body) pairs
main_handle(st, act, e, evs, tomorrow, clock) ==
    IF st = "no_auth" THEN
        << [subject |-> << "GitHub Actions Workflow Status" >>,
            body |-> format_github_actions_email(e, clock)] >>
    ELSE IF st = "weekend" /\ act = "schedule" THEN
        << [subject |-> << "Weekend Notice" >>,
            body |-> format_weekend_email(tomorrow)] >>
    ELSE IF st = "holiday" /\ act = "schedule" THEN
        << [subject |-> << "Holiday Notice - ", tomorrow >>,
            body |-> format_holiday_email(tomorrow)] >>
    ELSE IF st = "normal" THEN
        IF act = "reminder" /\ SEND_REMINDER(e) THEN
            << [subject |-> << "Calendar Update Reminder" >>,
                body |-> format_reminder_email(tomorrow, e)] >>
        ELSE IF act \in {"schedule", "test"} THEN
            << [subject |-> << "Schedule Update - ", tomorrow >>,
                body |-> format_schedule_email(evs, tomorrow, clock)] >>
        ELSE << >>
    ELSE << >>

-----------------------------------------------------------------------------
(* The inputs the model draws from *)

Environments ==
    [GITHUB_ACTIONS : {"unset", "true", "false"},
     CI : {"unset", "true"},
     TEST_MODE : {"unset", "true"},
     SEND_REMINDER : {"unset", "True", "false"},
     SCHEDULE_TIME : {"unset", "00:10"},
     RECIPIENT_EMAIL : {"unset"}]

\* The environments check_action_needed is studied in on its own.
ActionEnvironments ==
    [GITHUB_ACTIONS : {"unset", "true", "false"},
     CI : {"unset", "true", "false"},
     TEST_MODE : {"unset", "true", "True"},
     SEND_REMINDER : {"unset", "true", "True", "false"},
     SCHEDULE_TIME : {"unset", "00:10", "09:05"},
     RECIPIENT_EMAIL : {"unset"}]

DefaultEnvironment ==
    [GITHUB_ACTIONS |-> "unset", CI |-> "unset", TEST_MODE |-> "unset",
     SEND_REMINDER |-> "unset", SCHEDULE_TIME |-> "unset",
     RECIPIENT_EMAIL |-> "unset"]

\* The send time of an environment, in seconds after midnight.
SendSecond(e) ==
    LET hm == ParseHHMM(SCHEDULE_TIME(e)) IN hm[1] * 3600 + hm[2] * 60

\* The send and reminder times of a set of environments, in seconds after
\* midnight; a reminder time before midnight is also taken on the day itself.
Anchors(envs) ==
    UNION { { SendSecond(e),
              SendSecond(e) - REMINDER_MINUTES * 60,
              SendSecond(e) - REMINDER_MINUTES * 60 + SecondsPerDay } : e \in envs }

\* The edges and the middle of the 5-minute windows.
WindowOffsets ==
    { 0 - WindowSeconds, 1 - WindowSeconds, 0, WindowSeconds - 1, WindowSeconds }

\* The instants check_action_needed is called at, when studied on its own: the
\* edges and the middle of the windows around every send and reminder time,
\* on the second and half a second later.
NowSamples ==
    { sec * TicksPerSecond + sub :
        sec \in { a + d : a \in Anchors(ActionEnvironments), d \in WindowOffsets }
                  \cap (0 .. SecondsPerDay - 1),
        sub \in {0, TicksPerSecond \div 2} }

\* The instants a run of main reads the clock at: every send and reminder time.
MainNowSamples ==
    { sec * TicksPerSecond : sec \in Anchors(Environments) \cap (0 .. SecondsPerDay - 1) }

\* The minutes of the day a format_* function reads the clock at.
FormatClocks == { 21 * 60, 21 * 60 + 1 }

Weekdays == 0 .. 6

-----------------------------------------------------------------------------
(* One run of main *)

Init ==
    /\ env \in Environments
    /\ pc = "start"
    /\ calendar_service = FALSE
    /\ gmail_service = FALSE
    /\ now = NotRead
    /\ action = "none"
    /\ today = NotRead
    /\ fetch = NoFetch
    /\ events = << >>
    /\ tomorrow_date = NotRead
    /\ status = "none"
    /\ queries = 0
    /\ first_half = << >>
    /\ second_half = << >>
    /\ body = [template |-> "none"]
    /\ sent = << >>
    /\ attempts = 0
    /\ delivered = << >>
    /\ returned = NotRead

\* lines 42-95: authenticate().  In GitHub Actions every failure is caught and
\* gives (None, None); in a local run the token and OAuth steps are outside
\* any try and an exception of theirs leaves main.
AuthOutcomes(e) ==
    IF is_github_actions(e) THEN {"services", "unavailable"}
    ELSE {"services", "unavailable", "raise"}

Authenticate ==
    /\ pc = "start"
    /\ \E outcome \in AuthOutcomes(env) :
        /\ calendar_service' = (outcome = "services")
        /\ gmail_service' = (outcome = "services")
        /\ pc' = IF outcome = "raise" THEN "crashed" ELSE "authenticated"
    /\ UNCHANGED << env, now, action, today, fetch, events, tomorrow_date, status,
                    queries, first_half, second_half, body, sent, attempts,
                    delivered, returned >>

\* check_action_needed reads the clock only past its two early returns.
ReadsClock(e) == ~is_github_actions(e) /\ e.TEST_MODE # "true"

\* line 375: action = check_action_needed()
CheckActionNeeded ==
    /\ pc = "authenticated"
    /\ \E t \in (IF ReadsClock(env) THEN MainNowSamples ELSE {NotRead}) :
        /\ now' = t
        /\ action' = check_action_needed(env, t)
    /\ pc' = "classified"
    /\ UNCHANGED << env, calendar_service, gmail_service, today, fetch, events,
                    tomorrow_date, status, queries, first_half, second_half, body,
                    sent, attempts, delivered, returned >>

\* line 379: events, tomorrow_date, status = get_tomorrow_events(calendar_service)
GetTomorrowEvents ==
    /\ pc = "classified"
    /\ \E wd \in Weekdays, outcome \in FetchOutcomes :
        LET r == get_tomorrow_events(calendar_service, wd, outcome)
        IN  /\ today' = wd
            /\ fetch' = IF r.queried THEN outcome ELSE NoFetch
            /\ events' = r.events
            /\ tomorrow_date' = r.tomorrow
            /\ status' = r.status
            /\ queries' = queries + (IF r.queried THEN 1 ELSE 0)
            /\ pc' = IF r.raised THEN "crashed" ELSE "fetched"
    /\ UNCHANGED << env, calendar_service, gmail_service, now, action, first_half,
                    second_half, body, sent, attempts, delivered, returned >>

SendOutcomes == {"ok", "raise"}

\* lines 381-410: render, send_email, return 0
Handle ==
    /\ pc = "fetched"
    /\ \E clock \in FormatClocks, outcome \in SendOutcomes :
        LET calls == main_handle(status, action, env, events, tomorrow_date, clock)
            results == [i \in 1 .. Len(calls) |->
                          send_email(gmail_service, calls[i].subject,
                                     calls[i].body, outcome)]
            formatted == Len(calls) > 0 /\ calls[1].body.template = "schedule"
        IN  /\ sent' = sent \o calls
            /\ body' = IF Len(calls) > 0 THEN calls[Len(calls)].body ELSE body
            /\ first_half' = IF formatted THEN calls[1].body.first_half ELSE first_half
            /\ second_half' = IF formatted THEN calls[1].body.second_half ELSE second_half
            /\ attempts' = attempts + (IF Len(calls) > 0 THEN results[1].attempted ELSE 0)
            /\ IF \E i \in 1 .. Len(calls) : results[i].raised
               THEN /\ delivered' = delivered
                    /\ pc' = "crashed"
                    /\ returned' = returned
               ELSE /\ delivered' = delivered \o [i \in 1 .. Len(calls) |-> results[i].result]
                    /\ pc' = "done"
                    /\ returned' = 0
    /\ UNCHANGED << env, calendar_service, gmail_service, now, action, today, fetch,
                    events, tomorrow_date, status, queries >>

Next == Authenticate \/ CheckActionNeeded \/ GetTomorrowEvents \/ Handle

Spec == Init /\ [][Next]_vars

-----------------------------------------------------------------------------
(* format_schedule_email on its own, applied to every event list *)

InitFormat ==
    /\ env = DefaultEnvironment
    /\ pc = "format"
    /\ calendar_service = TRUE
    /\ gmail_service = TRUE
    /\ now = NotRead
    /\ action = "none"
    /\ today = NotRead
    /\ fetch = NoFetch
    /\ events \in EventLists(StartSamples, MaxFormatEvents)
    /\ tomorrow_date \in Weekdays
    /\ status = "normal"
    /\ queries = 0
    /\ first_half = << >>
    /\ second_half = << >>
    /\ body = [template |-> "none"]
    /\ sent = << >>
    /\ attempts = 0
    /\ delivered = << >>
    /\ returned = NotRead

FormatScheduleEmail ==
    /\ pc = "format"
    /\ \E clock \in FormatClocks :
        /\ body' = format_schedule_email(events, tomorrow_date, clock)
        /\ first_half' = body'.first_half
        /\ second_half' = body'.second_half
    /\ pc' = "formatted"
    /\ UNCHANGED << env, calendar_service, gmail_service, now, action, today, fetch,
                    events, tomorrow_date, status, queries, sent, attempts,
                    delivered, returned >>

NextFormat == FormatScheduleEmail

SpecFormat == InitFormat /\ [][NextFormat]_vars

-----------------------------------------------------------------------------
(* check_action_needed on its own, called in every environment at every     *)
(* instant of NowSamples                                                    *)

InitAction ==
    /\ env \in ActionEnvironments
    /\ pc = "action"
    /\ calendar_service = FALSE
    /\ gmail_service = FALSE
    /\ now \in NowSamples
    /\ action = "none"
    /\ today = NotRead
    /\ fetch = NoFetch
    /\ events = << >>
    /\ tomorrow_date = NotRead
    /\ status = "none"
    /\ queries = 0
    /\ first_half = << >>
    /\ second_half = << >>
    /\ body = [template |-> "none"]
    /\ sent = << >>
    /\ attempts = 0
    /\ delivered = << >>
    /\ returned = NotRead

CallCheckActionNeeded ==
    /\ pc = "action"
    /\ action' = check_action_needed(env, now)
    /\ pc' = "classified"
    /\ UNCHANGED << env, calendar_service, gmail_service, now, today, fetch, events,
                    tomorrow_date, status, queries, first_half, second_half, body,
                    sent, attempts, delivered, returned >>

NextAction == CallCheckActionNeeded

SpecAction == InitAction /\ [][NextAction]_vars

-----------------------------------------------------------------------------
(* Properties of a run of main *)

\* The templates of the messages handed to send_email, in order.
SentTemplates == [i \in 1 .. Len(sent) |-> sent[i].body.template]

\* C1: every run of main that returns has handed exactly one (subject, body)
\* pair to send_email.
C1_ExactlyOneEmailPerRun == pc = "done" => Len(sent) = 1

\* C2: when the calendar query fails with the API error get_tomorrow_events
\* catches (status 'error'), the run returns and send_email has received
\* exactly one (subject, body) pair.
C2_FetchErrorStillSendsOne ==
    (pc = "done" /\ status = "error") => Len(sent) = 1

\* C3: the message a finished run has sent is the one the table gives for its
\* (status, action): no_auth with any action the auth-unavailable notice,
\* weekend with schedule the weekend notice, holiday with schedule the holiday
\* notice, normal with reminder the reminder, normal with schedule or test the
\* digest; and never more than one message.
C3_TemplateTable ==
    pc = "done" =>
        /\ Len(sent) <= 1
        /\ status = "no_auth" => SentTemplates = << "github_actions" >>
        /\ (status = "weekend" /\ action = "schedule") => SentTemplates = << "weekend" >>
        /\ (status = "holiday" /\ action = "schedule") => SentTemplates = << "holiday" >>
        /\ (status = "normal" /\ action = "reminder") => SentTemplates = << "reminder" >>
        /\ (status = "normal" /\ action \in {"schedule", "test"})
               => SentTemplates = << "schedule" >>

C3_Witness ==
    /\ pc = "done"
    /\ status = "normal"
    /\ action = "reminder"
    /\ SentTemplates = << "reminder" >>

\* C4 as stated: once get_tomorrow_events has run, the status is weekend
\* exactly when today is Friday (4) or Saturday (5).
C4_WeekendByWeekdayAlone ==
    today # NotRead => (status = "weekend" <=> today \in {4, 5})

\* C4 amended: with a calendar service, the status is weekend exactly when
\* today is Friday or Saturday, and the `today is not Sunday` guard of the
\* Sunday test changes nothing; without a calendar service the status is
\* no_auth on every weekday.
C4_WeekendByWeekdayWithService ==
    today # NotRead =>
        /\ calendar_service => (status = "weekend" <=> today \in {4, 5})
        /\ (TomorrowOf(today) = 6 /\ today # 6) <=> (TomorrowOf(today) = 6)
        /\ ~calendar_service => status = "no_auth"

C4_Witness ==
    /\ pc = "done"
    /\ calendar_service
    /\ today = 5
    /\ status = "weekend"

\* C5 as stated: a finished run whose tomorrow is Saturday and whose action is
\* schedule has sent the weekend notice, with or without a calendar service.
C5_SaturdayAlwaysWeekendNotice ==
    (pc = "done" /\ TomorrowOf(today) = 5 /\ action = "schedule")
        => SentTemplates = << "weekend" >>

\* C5 amended: a run with a calendar service whose tomorrow is Saturday never
\* issues the calendar query, so that it cannot fail, and with the action
\* schedule it sends the weekend notice.
C5_SaturdayWeekendNoticeWithService ==
    (calendar_service /\ today # NotRead /\ TomorrowOf(today) = 5) =>
        /\ queries = 0
        /\ pc # "crashed"
        /\ (pc = "done" /\ action = "schedule") => SentTemplates = << "weekend" >>

C5_Witness ==
    /\ pc = "done"
    /\ calendar_service
    /\ today = 4
    /\ action = "schedule"
    /\ SentTemplates = << "weekend" >>

\* C9: a finished run whose action is test and whose status is weekend,
\* holiday or normal has sent one message.
C9_TestRunAlwaysSends ==
    (pc = "done" /\ action = "test" /\ status \in {"weekend", "holiday", "normal"})
        => Len(sent) = 1

\* C15: in a run with a calendar service whose tomorrow is not a weekend, a
\* query that succeeds with no event gives holiday, one that succeeds with
\* events gives normal and one that fails gives error; holiday comes only from
\* a successful query and error only from a failed one.
C15_StatusByFetchOutcome ==
    (today # NotRead /\ calendar_service /\ ~skip_weekend(today)) =>
        /\ (fetch.kind = "ok" /\ fetch.items = << >>) => status = "holiday"
        /\ (fetch.kind = "ok" /\ fetch.items # << >>) => status = "normal"
        /\ fetch.kind \in {"HttpError", "exception"} => status = "error"
        /\ status = "holiday" => fetch.kind = "ok"
        /\ status = "error" => fetch.kind \in {"HttpError", "exception"}

-----------------------------------------------------------------------------
(* Properties of check_action_needed *)

Local(e) == e.GITHUB_ACTIONS # "true" /\ e.CI # "true"

\* The distance, in ticks, of instant t from s seconds after today's midnight.
DistanceFrom(t, s) == Abs(t - s * TicksPerSecond)

\* The action C6 states for a local run that is not in test mode.
C6_StatedAction(e, t) ==
    IF SEND_REMINDER(e)
       /\ DistanceFrom(t, SendSecond(e) - REMINDER_MINUTES * 60) < 5 * 60 * TicksPerSecond
    THEN "reminder"
    ELSE IF DistanceFrom(t, SendSecond(e)) < 5 * 60 * TicksPerSecond
    THEN "schedule"
    ELSE "test"

\* C6: in a local run that is not in test mode, the action is reminder iff
\* reminders are enabled and now is less than 5 minutes from the send time
\* minus 30 minutes, else schedule iff now is less than 5 minutes from the
\* send time, else test.
C6_ActionByDistance ==
    (pc = "classified" /\ Local(env) /\ env.TEST_MODE # "true")
        => action = C6_StatedAction(env, now)

\* C7: in GitHub Actions or CI the action is schedule, at every instant, with
\* every reminder setting and every TEST_MODE.
C7_GithubActionsAlwaysSchedule ==
    (pc = "classified" /\ (env.GITHUB_ACTIONS = "true" \/ env.CI = "true"))
        => action = "schedule"

C7_Witness ==
    /\ pc = "classified"
    /\ env.CI = "true"
    /\ env.GITHUB_ACTIONS = "unset"
    /\ env.TEST_MODE = "true"
    /\ env.SEND_REMINDER = "unset"
    /\ now = (SendSecond(env) - REMINDER_MINUTES * 60) * TicksPerSecond
    /\ action = "schedule"

\* C8 as stated: with TEST_MODE=true the action is test in every environment.
C8_TestModeAlwaysTest ==
    (pc = "classified" /\ env.TEST_MODE = "true") => action = "test"

\* C8 amended: with TEST_MODE=true in a local run (neither GITHUB_ACTIONS nor
\* CI is 'true') the action is test, at every instant, with every send time
\* and reminder setting.
C8_TestModeLocalAlwaysTest ==
    (pc = "classified" /\ env.TEST_MODE = "true" /\ Local(env)) => action = "test"

C8_Witness ==
    /\ pc = "classified"
    /\ env.TEST_MODE = "true"
    /\ Local(env)
    /\ now = SendSecond(env) * TicksPerSecond
    /\ action = "test"

-----------------------------------------------------------------------------
(* Properties of format_schedule_email *)

\* The number of places of list s that hold event ev.
Occurrences(s, ev) == Cardinality({ j \in 1 .. Len(s) : s[j] = ev })

\* The events of list s are in the order of the calendar response.
InFetchOrder(s) == \A j, k \in 1 .. Len(s) : j < k => s[j].id < s[k].id

\* C10: first_half and second_half partition the events: every event is in
\* exactly one of the lists, once; the lengths add up; each list keeps the
\* order of the response.
C10_HalvesPartitionEvents ==
    pc = "formatted" =>
        /\ Len(first_half) + Len(second_half) = Len(events)
        /\ \A i \in 1 .. Len(events) :
              Occurrences(first_half, events[i]) + Occurrences(second_half, events[i]) = 1
        /\ InFetchOrder(first_half)
        /\ InFetchOrder(second_half)

C10_Witness ==
    /\ pc = "formatted"
    /\ Len(events) = MaxFormatEvents
    /\ Len(first_half) >= 2
    /\ Len(second_half) >= 1
    /\ \E j \in 1 .. Len(first_half) : first_half[j].start = AllDay

-----------------------------------------------------------------------------
(* format_schedule_email applied to one event of every start *)

InitBucket ==
    /\ env = DefaultEnvironment
    /\ pc = "format"
    /\ calendar_service = TRUE
    /\ gmail_service = TRUE
    /\ now = NotRead
    /\ action = "none"
    /\ today = NotRead
    /\ fetch = NoFetch
    /\ events \in { evs \in EventLists(AllStarts, 1) : Len(evs) = 1 }
    /\ tomorrow_date = 0
    /\ status = "normal"
    /\ queries = 0
    /\ first_half = << >>
    /\ second_half = << >>
    /\ body = [template |-> "none"]
    /\ sent = << >>
    /\ attempts = 0
    /\ delivered = << >>
    /\ returned = NotRead

SpecBucket == InitBucket /\ [][NextFormat]_vars

\* The local (Asia/Kolkata) hour and minute of a timed start.
LocalHour(start) == LocalMinute(start) \div 60

LocalMin(start) == LocalMinute(start) % 60

\* (h, m) is strictly before 13:30
BeforeHalfPastOne(h, m) == h * 60 + m < 13 * 60 + 30

\* C11: an all-day event is in first_half; a timed event is in first_half iff
\* its local start (hour, minute) is strictly before 13:30 and in second_half
\* otherwise, for every hour 0..23 and minute 0..59; a start written with the
\* offset +05:30 has its written hour and minute as local ones.
C11_BucketRule ==
    pc = "formatted" =>
        \A i \in 1 .. Len(events) :
            LET ev == events[i]
                first == ~IsTimed(ev.start)
                           \/ BeforeHalfPastOne(LocalHour(ev.start), LocalMin(ev.start))
            IN  /\ first => (Occurrences(first_half, ev) = 1
                               /\ Occurrences(second_half, ev) = 0)
                /\ ~first => (Occurrences(first_half, ev) = 0
                                /\ Occurrences(second_half, ev) = 1)
                /\ (IsTimed(ev.start) /\ ev.start.utcoff = KolkataOffsetMinutes)
                       => (LocalHour(ev.start) = ev.start.hour
                             /\ LocalMin(ev.start) = ev.start.minute)

\* an event that starts at 13:30 local time, written in UTC, is in second_half
C11_Witness ==
    /\ pc = "formatted"
    /\ Len(events) = 1
    /\ events[1].start = Timed(0, 8, 0)
    /\ first_half = << >>
    /\ second_half = events

-----------------------------------------------------------------------------
(* format_single_event applied to one event *)

InitEvent ==
    /\ env = DefaultEnvironment
    /\ pc = "event"
    /\ calendar_service = TRUE
    /\ gmail_service = TRUE
    /\ now = NotRead
    /\ action = "none"
    /\ today = NotRead
    /\ fetch = NoFetch
    /\ events \in { << ev >> : ev \in EventSamples }
    /\ tomorrow_date = 0
    /\ status = "normal"
    /\ queries = 0
    /\ first_half = << >>
    /\ second_half = << >>
    /\ body = [template |-> "none"]
    /\ sent = << >>
    /\ attempts = 0
    /\ delivered = << >>
    /\ returned = NotRead

FormatSingleEvent ==
    /\ pc = "event"
    /\ body' = format_single_event(events[1])
    /\ pc' = "event_formatted"
    /\ UNCHANGED << env, calendar_service, gmail_service, now, action, today, fetch,
                    events, tomorrow_date, status, queries, first_half, second_half,
                    sent, attempts, delivered, returned >>

NextEvent == FormatSingleEvent

SpecEvent == InitEvent /\ [][NextEvent]_vars

HasDescription(ev) == "description" \in DOMAIN ev

\* C12 as stated: the notes line is there iff the description exists, is not
\* empty after trimming and has fewer than 150 characters, and it then holds
\* the description verbatim.
C12_NotesIffShortDescription ==
    pc = "event_formatted" =>
        LET ev == events[1]
        IN  /\ body.notes # << >> <=>
                  (/\ HasDescription(ev)
                   /\ ev.description.core > 0
                   /\ TextLen(ev.description) < 150)
            /\ body.notes # << >> => body.notes = << ev.description >>

\* C12 amended: the notes line is there iff the description exists and,
\* trimmed, is not empty and has fewer than 150 characters; it then holds the
\* whole trimmed description, never a shortened one.
C12_NotesIffShortTrimmedDescription ==
    pc = "event_formatted" =>
        LET ev == events[1]
        IN  /\ body.notes # << >> <=>
                  (/\ HasDescription(ev)
                   /\ ev.description.core > 0
                   /\ ev.description.core < 150)
            /\ body.notes # << >> =>
                  (/\ Len(body.notes) = 1
                   /\ body.notes[1] = Text(0, ev.description.core, 0))

\* a description of 149 characters followed by 60 of white space is rendered,
\* trimmed
C12_Witness ==
    /\ pc = "event_formatted"
    /\ HasDescription(events[1])
    /\ events[1].description = Text(0, 149, 60)
    /\ body.notes = << Text(0, 149, 0) >>

-----------------------------------------------------------------------------
(* Properties of send_email within a run *)

\* C13: a send that raises is not fatal: a run makes at most one send attempt;
\* a run that made one has returned 0 with one result from send_email; and
\* when that result is False (the send raised) the (subject, body) pair handed
\* to send_email is still the one main rendered.
C13_SendFailureNotFatal ==
    /\ attempts <= 1
    /\ attempts = 1 =>
          (/\ pc = "done"
           /\ returned = 0
           /\ Len(sent) = 1
           /\ Len(delivered) = 1)
    /\ delivered = << FALSE >> =>
          (/\ attempts = 1
           /\ body = sent[1].body
           /\ \E clock \in FormatClocks :
                 sent = main_handle(status, action, env, events, tomorrow_date, clock))

C13_Witness ==
    /\ pc = "done"
    /\ returned = 0
    /\ delivered = << FALSE >>
    /\ attempts = 1
    /\ Len(sent) = 1

-----------------------------------------------------------------------------
(* Rendering the message of one (status, action, date, events) twice, at two *)
(* readings of the clock                                                     *)

\* The environments whose configuration the templates print.
RenderEnvironments ==
    { e \in Environments :
        e.GITHUB_ACTIONS = "unset" /\ e.CI = "unset" /\ e.TEST_MODE = "unset" }

InitRender ==
    /\ env \in RenderEnvironments
    /\ pc = "render"
    /\ calendar_service = TRUE
    /\ gmail_service = TRUE
    /\ now = NotRead
    /\ action \in { a \in {"reminder", "schedule", "test"} :
                      a = "reminder" => SEND_REMINDER(env) }
    /\ today = NotRead
    /\ fetch = NoFetch
    /\ status \in {"no_auth", "weekend", "holiday", "normal", "error"}
    /\ events \in IF status = "normal"
                  THEN EventLists(FetchedStarts, MaxEvents) \ { << >> }
                  ELSE { << >> }
    /\ tomorrow_date \in Weekdays
    /\ queries = 0
    /\ first_half = << >>
    /\ second_half = << >>
    /\ body = [template |-> "none"]
    /\ sent = << >>
    /\ attempts = 0
    /\ delivered = << >>
    /\ returned = NotRead

\* lines 381-407, up to the call of send_email: render the message of the
\* (status, action) at one reading of the clock
Render(from, to) ==
    /\ pc = from
    /\ \E clock \in FormatClocks :
        LET calls == main_handle(status, action, env, events, tomorrow_date, clock)
        IN  /\ sent' = sent \o calls
            /\ body' = IF Len(calls) > 0 THEN calls[1].body ELSE body
    /\ pc' = to
    /\ UNCHANGED << env, calendar_service, gmail_service, now, action, today, fetch,
                    events, tomorrow_date, status, queries, first_half, second_half,
                    attempts, delivered, returned >>

RenderFirst == Render("render", "rendered_once")

RenderAgain == Render("rendered_once", "rendered_twice")

NextRender == RenderFirst \/ RenderAgain

SpecRender == InitRender /\ [][NextRender]_vars

\* The body without the reading of the clock it prints.
Unstamped(text) ==
    IF text.template = "schedule" THEN [text EXCEPT !.generated_at = 0]
    ELSE IF text.template = "github_actions" THEN [text EXCEPT !.executed_at = 0]
    ELSE text

\* C14 as stated: two renderings of the same (status, action, date, events),
\* at any two moments, give the same subject and body.
C14_RenderTwiceIdentical ==
    (pc = "rendered_twice" /\ Len(sent) = 2) => sent[1] = sent[2]

\* C14 amended: two renderings give the same subject, and the same body but
\* for the clock reading the digest ("Generated at") and the auth-unavailable
\* notice ("executed successfully at") print: the weekend, holiday and
\* reminder messages are identical at any two moments, the other two when
\* rendered within the same minute.
C14_RenderTwiceIdenticalButStamp ==
    pc = "rendered_twice" =>
        /\ Len(sent) \in {0, 2}
        /\ Len(sent) = 2 =>
              (/\ sent[1].subject = sent[2].subject
               /\ sent[1].body.template = sent[2].body.template
               /\ Unstamped(sent[1].body) = Unstamped(sent[2].body)
               /\ sent[1].body.template \in {"weekend", "holiday", "reminder"}
                     => sent[1] = sent[2]
               /\ (sent[1].body.template = "schedule"
                     /\ sent[1].body.generated_at = sent[2].body.generated_at)
                     => sent[1] = sent[2]
               /\ (sent[1].body.template = "github_actions"
                     /\ sent[1].body.executed_at = sent[2].body.executed_at)
                     => sent[1] = sent[2])

\* the digest rendered in two different minutes: same but for the stamp
C14_Witness ==
    /\ pc = "rendered_twice"
    /\ Len(sent) = 2
    /\ sent[1].body.template = "schedule"
    /\ sent[1].body.generated_at # sent[2].body.generated_at
    /\ Len(sent[1].body.first_lines) >= 1
    /\ sent[1].body.first_lines = sent[2].body.first_lines

-----------------------------------------------------------------------------
(* The order of the steps of a run *)

\* The place of a position of main in the pass.
Rank(p) ==
    CASE p = "start" -> 0
      [] p = "authenticated" -> 1
      [] p = "classified" -> 2
      [] p = "fetched" -> 3
      [] p \in {"done", "crashed"} -> 4

\* C16: a run is one ordered pass.  Every step moves forward, so none is
\* repeated; the action is fixed before get_tomorrow_events runs; the
\* calendar query is issued at most once, by get_tomorrow_events, and only
\* with a calendar service and a tomorrow that is not flagged weekend; a
\* message is handed to send_email only once status and action are fixed and
\* before main returns, and main returns in that same step.
C16_OneOrderedPass ==
    [][ /\ Rank(pc') > Rank(pc)
        /\ action' # action => (pc = "authenticated" /\ status = "none" /\ queries = 0)
        /\ status' # status => (pc = "classified" /\ action # "none" /\ action' = action)
        /\ queries' # queries =>
              (/\ pc = "classified"
               /\ queries = 0
               /\ queries' = 1
               /\ calendar_service
               /\ status' # "weekend"
               /\ today' \notin {4, 5})
        /\ sent' # sent =>
              (/\ pc = "fetched"
               /\ status # "none"
               /\ action # "none"
               /\ status' = status
               /\ action' = action
               /\ returned = NotRead
               /\ Len(sent) = 0
               /\ Len(sent') = 1)
        /\ returned' # returned => (pc = "fetched" /\ pc' = "done" /\ returned' = 0)
      ]_vars

\* a finished run that issued the query and sent a message
C16_Witness ==
    /\ pc = "done"
    /\ action = "schedule"
    /\ queries = 1
    /\ status = "normal"
    /\ Len(sent) = 1
    /\ returned = 0

====
